---------------------------- MODULE Spec2Model ----------------------------
(***************************************************************************)
(* A model of keyhunt-msvc/bloom/bloom.cpp: the Bloom filter (struct       *)
(* bloom), its bit buffer on the heap, its two on-disk formats and the     *)
(* mutex that guards bloom_add.                                            *)
(*                                                                         *)
(* Scale of the model.  Every field of struct bloom is one integer cell;   *)
(* a file is a sequence of cells (one per magic character, one for the     *)
(* uint16 size field, one per struct field, one per buffer byte).  The     *)
(* 64-bit hash values are kept at full width as eight base-256 limbs.      *)
(* The long double quantities (error, bpe) are fixed-point numbers with    *)
(* four decimals.                                                          *)
(***************************************************************************)
EXTENDS Integers, Sequences, FiniteSets, TLC

VARIABLES
    bloom,    \* bloom[f]: the struct bloom of Filter f
    heap,     \* the malloc/calloc heap: heap[p] is the block at address p
    fs,       \* the file system: file name -> contents, or NoFile
    win64,    \* TRUE when the build defines WIN64
    nopen,    \* number of file handles the process holds open
    ret,      \* the last completed call and what it returned
    added,    \* added[f]: elements whose bloom_add returned since f's buffer was last replaced or cleared
    saved,    \* saved[n]: the Filter image handed to the last save under name n
    pc,       \* pc[t]: where thread t stands inside bloom_add
    loc       \* loc[t]: the locals of thread t's call

vars == <<bloom, heap, fs, win64, nopen, ret, added, saved, pc, loc>>

-----------------------------------------------------------------------------
(* Bounds of the model *)

\* capacity of the heap, in blocks: malloc and calloc fail when it is full
MaxAlloc == 2
\* number of file handles the process can hold open at once
MaxOpen == 2

(* Program constants *)

NULL == 0
BLOOM_VERSION_MAJOR == 2
BLOOM_VERSION_MINOR == 1
\* BLOOM_MAGIC "libbloom2"; sizeof(BLOOM_MAGIC) counts the terminating NUL
BLOOM_MAGIC == <<108, 105, 98, 98, 108, 111, 111, 109, 50>>
NUL == 0
\* entries < 1000 is rejected
MinEntries == 1000
\* 0.480453013918201 and 0.693147180559945, four decimals
Ln2Squared == 4805
Ln2 == 6931
\* one unit of the fixed-point reals, and the value 1.0 of the error argument
Scale == 10 ^ 4
ErrorOne == 10 ^ 2
\* char filename_str[70]; snprintf(filename_str, 68, ...)
NameBufLimit == 68

FilterIds == {"F", "G"}
Elements == {"e1", "e2", "e3"}

-----------------------------------------------------------------------------
(* uint64_t arithmetic: a value is eight limbs, least significant first *)

Limbs == 64 \div 8
Base == 2 ^ 8

RECURSIVE LimbsOf(_, _)
LimbsOf(n, k) == IF k > Limbs THEN <<>> ELSE <<n % Base>> \o LimbsOf(n \div Base, k + 1)

\* the uint64_t of value n
U64(n) == LimbsOf(n, 1)
U64Max == [k \in 1..Limbs |-> Base - 1]

RECURSIVE AddCarry(_, _, _, _)
AddCarry(x, y, k, carry) ==
    IF k > Limbs THEN <<>>      \* the carry out of the top limb is dropped: wraps mod 2^64
    ELSE LET s == x[k] + y[k] + carry
         IN  <<s % Base>> \o AddCarry(x, y, k + 1, s \div Base)

U64Add(x, y) == AddCarry(x, y, 1, 0)

RECURSIVE MulCarry(_, _, _, _)
MulCarry(x, i, k, carry) ==
    IF k > Limbs THEN <<>>
    ELSE LET s == x[k] * i + carry
         IN  <<s % Base>> \o MulCarry(x, i, k + 1, s \div Base)

\* b * i with i a uint8_t
U64MulSmall(x, i) == MulCarry(x, i, 1, 0)

RECURSIVE ModFrom(_, _, _, _)
ModFrom(x, m, k, r) ==
    IF k = 0 THEN r ELSE ModFrom(x, m, k - 1, (r * Base + x[k]) % m)

\* x % m, m > 0
U64Mod(x, m) == ModFrom(x, m, Limbs, 0)

-----------------------------------------------------------------------------
(* The hash primitive.  XXH64 is a deterministic function of the element   *)
(* and the seed; the table gives the two values bloom_check_add asks for.  *)

SEED == <<152, 23, 248, 22, 91, 129, 242, 89>>    \* 0x59f2815b16f81798

\* e1 and e2 index different bits of the same bytes; e3 has a + b wrap past 2^64
\* and, in a Filter of 2505 bits, both of its rounds index the second bit of e1
HashA(e) ==
    CASE e = "e1" -> U64(5)
      [] e = "e2" -> U64(6)
      [] e = "e3" -> U64Max

HashB(e) ==
    CASE e = "e1" -> U64(1045)
      [] e = "e2" -> U64(1045)
      [] e = "e3" -> U64(1051)

XXH64(e, seed) == IF seed = SEED THEN HashA(e) ELSE HashB(e)

-----------------------------------------------------------------------------
(* struct bloom *)

\* the order of the fields in the struct, hence in its byte image
FieldOrder == <<"entries", "error", "bpe", "bits", "bytes", "hashes",
                "ready", "major", "minor", "bf", "mutex">>

\* sizeof(struct bloom), in cells
SizeofBloom == Len(FieldOrder)

\* memset(bloom, 0, sizeof(struct bloom))
ZeroBloom == [entries |-> 0, error |-> 0, bpe |-> 0, bits |-> 0, bytes |-> 0,
              hashes |-> 0, ready |-> 0, major |-> 0, minor |-> 0,
              bf |-> NULL, mutex |-> 0]

\* the byte image of a struct, and the struct a byte image of at least k cells overwrites
Image(b) == [k \in 1..SizeofBloom |-> b[FieldOrder[k]]]

RECURSIVE ReadInto(_, _, _)
ReadInto(b, cells, k) ==
    IF k > Len(cells) \/ k > SizeofBloom THEN b
    ELSE ReadInto([b EXCEPT ![FieldOrder[k]] = cells[k]], cells, k + 1)

Zeros(n) == [k \in 1..n |-> 0]

-----------------------------------------------------------------------------
(* The heap *)

Addrs == 1..MaxAlloc
FreeBlock == [live |-> FALSE, data |-> <<>>]

Live(p) == p \in Addrs /\ heap[p].live

\* the bytes bloom->bf points to in heap h (nothing when the pointer is NULL or dangling)
BufIn(h, b) == IF b.bf \in Addrs /\ h[b.bf].live THEN h[b.bf].data ELSE <<>>
Buf(b) == BufIn(heap, b)

\* malloc/calloc return NULL when no block is left, else the lowest free address
CanAlloc == \E p \in Addrs : ~heap[p].live
NewAddr == CHOOSE p \in Addrs : ~heap[p].live /\ \A q \in Addrs : ~heap[q].live => p <= q
Alloc(h, p, data) == [h EXCEPT ![p] = [live |-> TRUE, data |-> data]]
Free(h, p) == IF p \in Addrs THEN [h EXCEPT ![p] = FreeBlock] ELSE h

-----------------------------------------------------------------------------
(* The record of the last call *)

\* op, f, e, name: the call; rv: what it returned; tested: the bit tests it made;
\* fault: the trap that ended it, if any; why: the return statement it left by
Ret(op, f, e, name, rv, tested, fault) ==
    [op |-> op, f |-> f, e |-> e, name |-> name, rv |-> rv, tested |-> tested,
     fault |-> fault, why |-> "-"]

\* the name recorded for a call that takes no file name
NoName == [rep |-> 0, tail |-> <<>>]

\* a call that trapped (division by zero, access outside the buffer) ends the process
Running == ret.fault = "none"

None == [entries |-> -1]

-----------------------------------------------------------------------------
(* Bit operations on one buffer byte *)

Mask(bit) == 2 ^ (bit % 8)                      \* uint8_t mask = 1 << (bit % 8)
TestMask(c, mask) == (c \div mask) % 2 = 1      \* c & mask
OrMask(c, mask) == IF TestMask(c, mask) THEN c ELSE c + mask   \* c | mask

\* test_bit_set_bit with the sense of set_bit inverted: a query sets, an insert does not
test_bit_set_bit_inverted(buf, bit, set_bit) ==
    LET byte == bit \div 8
        c == buf[byte + 1]
        mask == Mask(bit)
    IN  IF TestMask(c, mask)
        THEN [r |-> 1, buf |-> buf]
        ELSE [r |-> 0,
              buf |-> IF set_bit = 0 THEN [buf EXCEPT ![byte + 1] = OrMask(c, mask)] ELSE buf]

\* test_bit_set_bit(buf, bit, set_bit): the result and the buffer it leaves
test_bit_set_bit(buf, bit, set_bit) ==
    LET byte == bit \div 8                      \* bit >> 3
        c == buf[byte + 1]
        mask == Mask(bit)
    IN  IF TestMask(c, mask)
        THEN [r |-> 1, buf |-> buf]
        ELSE [r |-> 0,
              buf |-> IF set_bit # 0 THEN [buf EXCEPT ![byte + 1] = OrMask(c, mask)] ELSE buf]

\* x = (a + b * i) % bloom->bits
Index(a, b, i, bits) == U64Mod(U64Add(a, U64MulSmall(b, i)), bits)

\* the loop with every round counted as a hit, whether the bit was set or this call set it
RECURSIVE CheckAddLoopCountsAll(_, _, _, _, _, _, _)
CheckAddLoopCountsAll(b, buf, ha, hb, add, i, hits) ==
    IF ~(i < b.hashes)
    THEN [rv |-> IF hits = b.hashes THEN 1 ELSE 0, buf |-> buf, tested |-> i, fault |-> "none"]
    ELSE IF b.bits = 0
    THEN [rv |-> 0, buf |-> buf, tested |-> i, fault |-> "div0"]
    ELSE LET x == Index(ha, hb, i, b.bits)
         IN  IF ~(x \div 8 < Len(buf))
             THEN [rv |-> 0, buf |-> buf, tested |-> i, fault |-> "oob"]
             ELSE LET t == test_bit_set_bit(buf, x, add)
                  IN  IF t.r = 1 \/ add # 0
                      THEN CheckAddLoopCountsAll(b, t.buf, ha, hb, add, i + 1, (hits + 1) % Base)
                      ELSE [rv |-> 0, buf |-> t.buf, tested |-> i + 1, fault |-> "none"]

\* the loop without the early return of a query
RECURSIVE CheckAddLoopNoShortCircuit(_, _, _, _, _, _, _)
CheckAddLoopNoShortCircuit(b, buf, ha, hb, add, i, hits) ==
    IF ~(i < b.hashes)
    THEN [rv |-> IF hits = b.hashes THEN 1 ELSE 0, buf |-> buf, tested |-> i, fault |-> "none"]
    ELSE IF b.bits = 0
    THEN [rv |-> 0, buf |-> buf, tested |-> i, fault |-> "div0"]
    ELSE LET x == Index(ha, hb, i, b.bits)
         IN  IF ~(x \div 8 < Len(buf))
             THEN [rv |-> 0, buf |-> buf, tested |-> i, fault |-> "oob"]
             ELSE LET t == test_bit_set_bit(buf, x, add)
                  IN  CheckAddLoopNoShortCircuit(b, t.buf, ha, hb, add, i + 1,
                                                 IF t.r = 1 THEN (hits + 1) % Base ELSE hits)

\* the for loop of bloom_check_add, from round i on
RECURSIVE CheckAddLoop(_, _, _, _, _, _, _)
CheckAddLoop(b, buf, ha, hb, add, i, hits) ==
    IF ~(i < b.hashes)
    THEN [rv |-> IF hits = b.hashes THEN 1 ELSE 0, buf |-> buf, tested |-> i, fault |-> "none"]
    ELSE IF b.bits = 0
    THEN [rv |-> 0, buf |-> buf, tested |-> i, fault |-> "div0"]
    ELSE LET x == Index(ha, hb, i, b.bits)
         IN  IF ~(x \div 8 < Len(buf))
             THEN [rv |-> 0, buf |-> buf, tested |-> i, fault |-> "oob"]
             ELSE LET t == test_bit_set_bit(buf, x, add)
                  IN  IF t.r = 1
                      THEN CheckAddLoop(b, t.buf, ha, hb, add, i + 1, (hits + 1) % Base)
                      ELSE IF add = 0
                           THEN [rv |-> 0, buf |-> t.buf, tested |-> i + 1, fault |-> "none"]
                           ELSE CheckAddLoop(b, t.buf, ha, hb, add, i + 1, hits)

\* bloom_check_add without the test of bloom->ready
bloom_check_add_unguarded(b, buf, e, add) ==
    LET ha == XXH64(e, SEED)
        hb == XXH64(e, ha)
    IN  CheckAddLoop(b, buf, ha, hb, add, 0, 0)

\* bloom_check_add(bloom, buffer, len, add) on struct b whose buffer holds buf
bloom_check_add(b, buf, e, add) ==
    IF b.ready = 0
    THEN [rv |-> -1, buf |-> buf, tested |-> 0, fault |-> "none"]
    ELSE LET ha == XXH64(e, SEED)
             hb == XXH64(e, ha)
         IN  CheckAddLoop(b, buf, ha, hb, add, 0, 0)

-----------------------------------------------------------------------------
(* Construction *)

\* a long double error argument: a decimal mantissa and its count of decimal places in
\* one cell, the value being Mantissa / 10^Places; a value of two places is the cell of
\* its hundredths (0.30 is 30, 1.0 is 100)
PlaceUnit == 10 ^ 4
Mantissa(x) == x % PlaceUnit
Places(x) == 2 + x \div PlaceUnit
Decimal(m, places) == (places - 2) * PlaceUnit + m
LeZero(x) == x <= 0                                                  \* error <= 0
GeOne(x) == x > 0 /\ Places(x) <= 4 /\ Mantissa(x) >= 10 ^ Places(x) \* error >= 1

NearOne == Decimal(9999, 4)     \* 0.9999
Tiny == Decimal(1, 77)          \* 1e-77

\* -log(error) in ten-thousandths, for the error arguments the model passes
NegLog(error) ==
    CASE error = 30 -> 12039
      [] error = 99 -> 100
      [] error = NearOne -> 1
      [] error = Tiny -> 1772990
      [] OTHER -> 0

CeilDiv(a, b) == (a + b - 1) \div b

\* (uint8_t) of a long double: a value out of the range of uint8_t is undefined, and
\* builds either keep the low byte or saturate
Narrow(v, sat) == IF v < Base THEN v ELSE IF sat THEN Base - 1 ELSE v % Base

\* the sizing both bloom_init2 and bloom_dummy compute into a zeroed struct; the
\* quotients are taken whole part first, which keeps every intermediate value small
Sized(entries, error, sat) ==
    LET num == NegLog(error)
        bpe == (num \div Ln2Squared) * Scale + ((num % Ln2Squared) * Scale) \div Ln2Squared
        bits == entries * (bpe \div Scale) + (entries * (bpe % Scale)) \div Scale
        bytes == (bits \div 8) + (IF bits % 8 # 0 THEN 1 ELSE 0)
        up == CeilDiv(Ln2 * (bpe \div Scale) + CeilDiv(Ln2 * (bpe % Scale), Scale), Scale)
    IN  [ZeroBloom EXCEPT !.entries = entries, !.error = error, !.bpe = bpe,
                          !.bits = bits, !.bytes = bytes, !.hashes = Narrow(up, sat)]

\* the argument check without its tests of error
BadArgsEntriesOnly(entries, error) == entries < MinEntries

BadArgs(entries, error) == entries < MinEntries \/ LeZero(error) \/ GeOne(error)

\* the fields every sequential call leaves alone
Untouched == UNCHANGED <<fs, win64, nopen, saved, pc, loc>>

bloom_init2(f, entries, error, ok) ==
    /\ Running
    /\ ok => CanAlloc
    /\ IF BadArgs(entries, error)
       THEN /\ bloom' = [bloom EXCEPT ![f] = ZeroBloom]
            /\ heap' = heap
            /\ ret' = Ret("bloom_init2", f, "-", NoName, 1, 0, "none")
       ELSE \E sat \in BOOLEAN :
            LET b == Sized(entries, error, sat)
            IN  IF ok
                THEN /\ heap' = Alloc(heap, NewAddr, Zeros(b.bytes))
                     /\ bloom' = [bloom EXCEPT ![f] =
                            [b EXCEPT !.bf = NewAddr, !.ready = 1,
                                      !.major = BLOOM_VERSION_MAJOR,
                                      !.minor = BLOOM_VERSION_MINOR]]
                     /\ ret' = Ret("bloom_init2", f, "-", NoName, 0, 0, "none")
                ELSE /\ heap' = heap
                     /\ bloom' = [bloom EXCEPT ![f] = b]
                     /\ ret' = Ret("bloom_init2", f, "-", NoName, 1, 0, "none")
    /\ added' = [added EXCEPT ![f] = {}]
    /\ Untouched

bloom_dummy(f, entries, error) ==
    /\ Running
    /\ \E sat \in BOOLEAN :
          bloom' = [bloom EXCEPT ![f] =
              IF BadArgs(entries, error) THEN ZeroBloom ELSE Sized(entries, error, sat)]
    /\ ret' = Ret("bloom_dummy", f, "-", NoName, IF BadArgs(entries, error) THEN 1 ELSE 0, 0, "none")
    /\ added' = [added EXCEPT ![f] = {}]
    /\ UNCHANGED heap
    /\ Untouched

-----------------------------------------------------------------------------
(* Query and insert, called from one thread *)

\* the heap after a call left buf in the block of struct b
Store(b, buf) == IF Live(b.bf) THEN [heap EXCEPT ![b.bf].data = buf] ELSE heap

bloom_check(f, e) ==
    /\ Running
    /\ LET r == bloom_check_add(bloom[f], Buf(bloom[f]), e, 0)
       IN  /\ heap' = Store(bloom[f], r.buf)
           /\ ret' = Ret("bloom_check", f, e, NoName, r.rv, r.tested, r.fault)
    /\ UNCHANGED <<bloom, added>>
    /\ Untouched

\* pthread_mutex_lock returns once the mutex is free; WaitForSingleObject is handed
\* the address of the handle, which is no handle, and returns at once
LockReturns(b) == win64 \/ b.mutex = 0

bloom_add(f, e) ==
    /\ Running
    /\ LockReturns(bloom[f])
    /\ LET r == bloom_check_add(bloom[f], Buf(bloom[f]), e, 1)
       IN  /\ heap' = Store(bloom[f], r.buf)
           /\ ret' = Ret("bloom_add", f, e, NoName, r.rv, r.tested, r.fault)
           /\ added' = IF r.rv >= 0 /\ r.fault = "none"
                       THEN [added EXCEPT ![f] = @ \cup {e}] ELSE added
    /\ UNCHANGED bloom
    /\ Untouched

-----------------------------------------------------------------------------
(* Lifecycle *)

bloom_print(f) ==
    /\ Running
    /\ ret' = Ret("bloom_print", f, "-", NoName, 0, 0, "none")
    /\ UNCHANGED <<bloom, heap, added>>
    /\ Untouched

\* free(bloom->bf) of a block released before is undefined: the allocator either ends
\* the process or goes on
bloom_free(f) ==
    /\ Running
    /\ LET b == bloom[f]
           twice == b.ready # 0 /\ b.bf # NULL /\ ~Live(b.bf)
       IN  /\ heap' = IF b.ready # 0 THEN Free(heap, b.bf) ELSE heap
           /\ \E caught \in BOOLEAN :
                 ret' = Ret("bloom_free", f, "-", NoName, 0, 0,
                            IF twice /\ caught THEN "double free" ELSE "none")
    /\ bloom' = [bloom EXCEPT ![f].ready = 0]
    /\ added' = [added EXCEPT ![f] = {}]
    /\ Untouched

\* bloom_reset clearing the struct along with the buffer
bloom_reset_struct(f) ==
    /\ Running
    /\ IF bloom[f].ready = 0
       THEN /\ heap' = heap
            /\ bloom' = bloom
            /\ ret' = Ret("bloom_reset", f, "-", NoName, 1, 0, "none")
       ELSE /\ heap' = Store(bloom[f], Zeros(bloom[f].bytes))
            /\ bloom' = [bloom EXCEPT ![f] = [ZeroBloom EXCEPT !.ready = 1, !.bf = bloom[f].bf]]
            /\ ret' = Ret("bloom_reset", f, "-", NoName, 0, 0, "none")
    /\ added' = IF bloom[f].ready = 0 THEN added ELSE [added EXCEPT ![f] = {}]
    /\ Untouched

bloom_reset(f) ==
    /\ Running
    /\ IF bloom[f].ready = 0
       THEN /\ heap' = heap
            /\ ret' = Ret("bloom_reset", f, "-", NoName, 1, 0, "none")
       ELSE /\ heap' = Store(bloom[f], Zeros(bloom[f].bytes))
            /\ ret' = Ret("bloom_reset", f, "-", NoName, 0, 0, "none")
    /\ added' = IF bloom[f].ready = 0 THEN added ELSE [added EXCEPT ![f] = {}]
    /\ UNCHANGED bloom
    /\ Untouched

-----------------------------------------------------------------------------
(* Files.  A file name is a string, kept as a run of rep characters "x"    *)
(* followed by the characters of tail; a file is a sequence of cells.      *)

NullName == [rep |-> -1, tail |-> <<>>]     \* filename == NULL
EmptyName == [rep |-> 0, tail |-> <<>>]     \* filename[0] == 0
NameLen(n) == n.rep + Len(n.tail)
IsEmptyName(n) == n = NullName \/ NameLen(n) = 0

P == [rep |-> 0, tail |-> <<"p">>]          \* a single-file name
N == [rep |-> 0, tail |-> <<"n">>]          \* a short base name of the two-file form
L == [rep |-> 66, tail |-> <<>>]            \* a base name of 66 characters
U == [rep |-> 0, tail |-> <<"u">>]          \* a name in a directory that does not exist

Take(s, n) == SubSeq(s, 1, IF Len(s) < n THEN Len(s) ELSE n)

\* snprintf(out, size, "%s<ext>", n): the first size - 1 characters of n followed by ext
Snprintf(size, n, ext) ==
    IF n.rep >= size - 1
    THEN [rep |-> size - 1, tail |-> <<>>]
    ELSE [rep |-> n.rep, tail |-> Take(n.tail \o ext, size - 1 - n.rep)]

\* snprintf(filename_str, 68, "%s.blm", filename), and the same with ".dat"
BlmName(n) == Snprintf(NameBufLimit, n, <<".", "b", "l", "m">>)
DatName(n) == Snprintf(NameBufLimit, n, <<".", "d", "a", "t">>)

\* the paths of existing directories
Paths == {P, BlmName(N), DatName(N), BlmName(L), DatName(L)}

NoFile == [present |-> FALSE, data |-> <<>>]
File(data) == [present |-> TRUE, data |-> data]

\* the process can hold MaxOpen handles; an open beyond that fails
OpensForRead(n, held) == n \in Paths /\ fs[n].present /\ held < MaxOpen
OpensForWrite(n, held) == n \in Paths /\ held < MaxOpen

\* fread/read of n cells at offset pos: what is there, up to n cells
ReadAt(data, pos, n) == SubSeq(data, pos + 1, IF pos + n < Len(data) THEN pos + n ELSE Len(data))

\* write of cells at offset 0 of a file that is not truncated
Overlay(old, cells) == cells \o SubSeq(old, Len(cells) + 1, Len(old))

\* a uint16_t as two cells, low byte first
U16(n) == <<n % Base, n \div Base>>
U16Value(c) == c[1] + Base * c[2]

\* the image of a ready Filter as bloom_save lays it out
SingleFile(b, buf) == BLOOM_MAGIC \o U16(SizeofBloom) \o Image(b) \o buf

\* what a save call may read through bloom->bf: bloom->bytes bytes of a live block
CanReadBuf(b) == b.bytes = 0 \/ (Live(b.bf) /\ Len(heap[b.bf].data) >= b.bytes)
BufBytes(b) == IF b.bytes = 0 THEN <<>> ELSE SubSeq(heap[b.bf].data, 1, b.bytes)

\* what the round-trip statements compare a loaded Filter with: the Filter a save was handed
SaveNames == {P, N, L}
Snapshot(f) == [b |-> bloom[f], buf |-> Buf(bloom[f]), added |-> added[f]]
NoSnapshot == [b |-> ZeroBloom, buf |-> <<>>, added |-> {}]
Snap(n, f) == IF n \notin SaveNames THEN saved
              ELSE IF bloom[f].ready # 0 /\ CanReadBuf(bloom[f])
              THEN [saved EXCEPT ![n] = Snapshot(f)]
              ELSE [saved EXCEPT ![n] = NoSnapshot]

-----------------------------------------------------------------------------
(* The single-file form *)

\* the magic bytes a save writes: fwrite(BLOOM_MAGIC, 1, sizeof(BLOOM_MAGIC), fd) under
\* WIN64, write(fd, BLOOM_MAGIC, strlen(BLOOM_MAGIC)) otherwise
WrittenMagic == IF win64 THEN BLOOM_MAGIC \o <<NUL>> ELSE BLOOM_MAGIC

\* fopen(filename, "wb") truncates; open(filename, O_WRONLY | O_CREAT) does not
OpenedForSave(n) == IF win64 \/ ~fs[n].present THEN <<>> ELSE fs[n].data

bloom_save(f, name) ==
    /\ Running
    /\ LET b == bloom[f]
           rv(r, fault) == Ret("bloom_save", f, "-", name, r, 0, fault)
       IN  IF IsEmptyName(name) \/ ~OpensForWrite(name, nopen)
           THEN /\ fs' = fs
                /\ saved' = saved
                /\ ret' = rv(1, "none")
           ELSE LET old == OpenedForSave(name)
                    put(cells) == [fs EXCEPT ![name] = File(Overlay(old, cells))]
                IN  /\ saved' = Snap(name, f)
                    /\ IF Len(WrittenMagic) # Len(BLOOM_MAGIC)      \* out != strlen(BLOOM_MAGIC)
                       THEN /\ fs' = put(WrittenMagic)
                            /\ ret' = rv(1, "none")
                       ELSE IF ~CanReadBuf(b)
                       THEN \* write(fd, bloom->bf, bloom->bytes) from a NULL or released
                            \* pointer: the kernel refuses the address, or, the pages
                            \* being still mapped, writes what they hold now
                            \E stale \in BOOLEAN :
                               /\ stale => b.bf # NULL
                               /\ fs' = put(WrittenMagic \o U16(SizeofBloom) \o Image(b)
                                           \o (IF stale THEN Zeros(b.bytes) ELSE <<>>))
                               /\ ret' = rv(IF stale THEN 0 ELSE 1, "none")
                       ELSE /\ fs' = put(WrittenMagic \o U16(SizeofBloom) \o Image(b) \o BufBytes(b))
                            /\ ret' = rv(0, "none")
    /\ UNCHANGED <<bloom, heap, win64, nopen, added, pc, loc>>

NullFilter == "NULL"

\* bloom_load with a version check that also rejects a differing minor version
LoadRejectsMinor(b0, opens, data, ok) ==
    LET p1 == Len(BLOOM_MAGIC)
        p2 == p1 + 2
        p3 == p2 + SizeofBloom
        line == ReadAt(data, 0, Len(BLOOM_MAGIC))
        size == ReadAt(data, p1, 2)
        rec == ReadAt(data, p2, SizeofBloom)
        read == ReadInto(ZeroBloom, rec, 1)
        b1 == [read EXCEPT !.bf = NULL]
        bytes == ReadAt(data, p3, b1.bytes)
        err(rv, b) == [rv |-> rv, b |-> [b EXCEPT !.ready = 0], buf |-> <<>>]
    IN  IF ~opens THEN [rv |-> 3, b |-> ZeroBloom, buf |-> <<>>]
        ELSE IF Len(line) # Len(BLOOM_MAGIC) THEN err(4, ZeroBloom)
        ELSE IF line # BLOOM_MAGIC THEN err(5, ZeroBloom)
        ELSE IF Len(size) # 2 THEN err(6, ZeroBloom)
        ELSE IF U16Value(size) # SizeofBloom THEN err(7, ZeroBloom)
        ELSE IF Len(rec) # SizeofBloom THEN err(8, read)
        ELSE IF b1.major # BLOOM_VERSION_MAJOR \/ b1.minor # BLOOM_VERSION_MINOR THEN err(9, b1)
        ELSE IF ~ok THEN err(10, b1)
        ELSE IF Len(bytes) # b1.bytes THEN err(11, b1)
        ELSE [rv |-> 0, b |-> b1, buf |-> bytes]

\* bloom_load up to its return: the code returned, the struct left behind and, on
\* success, the bytes read into the new buffer
Load(b0, opens, data, ok) ==
    LET p1 == Len(BLOOM_MAGIC)
        p2 == p1 + 2
        p3 == p2 + SizeofBloom
        line == ReadAt(data, 0, Len(BLOOM_MAGIC))
        size == ReadAt(data, p1, 2)
        rec == ReadAt(data, p2, SizeofBloom)
        read == ReadInto(ZeroBloom, rec, 1)
        b1 == [read EXCEPT !.bf = NULL]
        bytes == ReadAt(data, p3, b1.bytes)
        err(rv, b) == [rv |-> rv, b |-> [b EXCEPT !.ready = 0], buf |-> <<>>]    \* load_error
    IN  IF ~opens THEN [rv |-> 3, b |-> ZeroBloom, buf |-> <<>>]
        ELSE IF Len(line) # Len(BLOOM_MAGIC) THEN err(4, ZeroBloom)
        ELSE IF line # BLOOM_MAGIC THEN err(5, ZeroBloom)
        ELSE IF Len(size) # 2 THEN err(6, ZeroBloom)
        ELSE IF U16Value(size) # SizeofBloom THEN err(7, ZeroBloom)
        ELSE IF Len(rec) # SizeofBloom THEN err(8, read)
        ELSE IF b1.major # BLOOM_VERSION_MAJOR THEN err(9, b1)
        ELSE IF ~ok THEN err(10, b1)
        ELSE IF Len(bytes) # b1.bytes THEN err(11, b1)
        ELSE [rv |-> 0, b |-> b1, buf |-> bytes]

bloom_load(f, name, ok) ==
    /\ Running
    /\ ok => CanAlloc
    /\ LET rv(r) == Ret("bloom_load", f, "-", name, r, 0, "none")
       IN  IF IsEmptyName(name)
           THEN /\ ret' = rv(1)
                /\ UNCHANGED <<bloom, heap, added>>
           ELSE IF f = NullFilter
           THEN /\ ret' = rv(2)
                /\ UNCHANGED <<bloom, heap, added>>
           ELSE LET opens == OpensForRead(name, nopen)
                    r == Load(bloom[f], opens, IF opens THEN fs[name].data ELSE <<>>, ok)
                IN  /\ ret' = rv(r.rv)
                    /\ added' = [added EXCEPT ![f] = {}]
                    /\ IF r.rv = 0
                       THEN /\ heap' = Alloc(heap, NewAddr, r.buf)
                            /\ bloom' = [bloom EXCEPT ![f] = [r.b EXCEPT !.bf = NewAddr]]
                       ELSE /\ heap' = heap
                            /\ bloom' = [bloom EXCEPT ![f] = r.b]
    /\ UNCHANGED <<fs, win64, nopen, saved, pc, loc>>

-----------------------------------------------------------------------------
(* The two-file form *)

bloom_savecustom(f, name) ==
    /\ Running
    /\ LET b == bloom[f]
           rv(r, fault) == Ret("bloom_savecustom", f, "-", name, r, 0, fault)
           str == BlmName(name)
           dat == DatName(name)
       IN  IF IsEmptyName(name)
           THEN /\ ret' = rv(1, "none")
                /\ UNCHANGED <<fs, nopen, saved>>
           ELSE LET o1 == OpensForWrite(str, nopen)
                    o2 == OpensForWrite(dat, nopen + (IF o1 THEN 1 ELSE 0))
                    \* fopen(..., "wb") leaves each file it opens empty
                    fs1 == IF o1 THEN [fs EXCEPT ![str] = File(<<>>)] ELSE fs
                    fs2 == IF o2 THEN [fs1 EXCEPT ![dat] = File(<<>>)] ELSE fs1
                IN  IF ~(o1 /\ o2)
                    THEN /\ fs' = fs2
                         /\ nopen' = nopen + (IF o1 THEN 1 ELSE 0) + (IF o2 THEN 1 ELSE 0)
                         /\ saved' = IF name \in SaveNames
                                     THEN [saved EXCEPT ![name] = NoSnapshot] ELSE saved
                         /\ ret' = rv(1, "none")
                    ELSE IF ~CanReadBuf(b)
                    THEN \* fwrite(bloom->bf, 1, bloom->bytes, fd_dat) from a NULL or
                         \* released pointer: the copy traps, or, the pages being still
                         \* mapped, writes what they hold now
                         \E stale \in BOOLEAN :
                            /\ stale => b.bf # NULL
                            /\ fs' = IF stale
                                     THEN [fs2 EXCEPT ![str] = File(Image(b)),
                                                      ![dat] = File(Zeros(b.bytes))]
                                     ELSE fs2
                            /\ nopen' = IF stale THEN nopen ELSE nopen + 2
                            /\ saved' = Snap(name, f)
                            /\ ret' = rv(IF stale THEN 0 ELSE 1, IF stale THEN "none" ELSE "badptr")
                    ELSE \* each stream writes what it buffered at offset 0 of its file,
                         \* at a flush or at fclose: in either order
                         \E strFirst \in BOOLEAN :
                            LET w1 == IF strFirst THEN str ELSE dat
                                w2 == IF strFirst THEN dat ELSE str
                                c1 == IF strFirst THEN Image(b) ELSE BufBytes(b)
                                c2 == IF strFirst THEN BufBytes(b) ELSE Image(b)
                                fs3 == [fs2 EXCEPT ![w1] = File(Overlay(fs2[w1].data, c1))]
                            IN  /\ fs' = [fs3 EXCEPT ![w2] = File(Overlay(fs3[w2].data, c2))]
                                /\ nopen' = nopen
                                /\ saved' = Snap(name, f)
                                /\ ret' = rv(0, "none")
    /\ UNCHANGED <<bloom, heap, win64, added, pc, loc>>

\* bloom_loadcustom returning its own value for an allocation failure
LoadCustomOwnCodes(b0, meta, bits, ok) ==
    LET rec == ReadAt(meta, 0, SizeofBloom)
        b1 == ReadInto(b0, rec, 1)
        bytes == ReadAt(bits, 0, b1.bytes)
    IN  IF Len(rec) # SizeofBloom
        THEN [rv |-> 1, why |-> "short metadata", b |-> b1, buf |-> <<>>, leak |-> 0]
        ELSE IF ~ok
        THEN [rv |-> 2, why |-> "allocation", b |-> ZeroBloom, buf |-> <<>>, leak |-> 2]
        ELSE IF Len(bytes) # b1.bytes
        THEN [rv |-> 1, why |-> "short bits", b |-> ZeroBloom, buf |-> <<>>, leak |-> 0]
        ELSE [rv |-> 0, why |-> "none", b |-> b1, buf |-> bytes, leak |-> 0]

\* bloom_loadcustom once both files are open: the value returned, the return statement
\* taken, the struct left behind, the bytes read into the new buffer and the handles
\* left open
LoadCustom(b0, meta, bits, ok) ==
    LET rec == ReadAt(meta, 0, SizeofBloom)
        b1 == ReadInto(b0, rec, 1)
        bytes == ReadAt(bits, 0, b1.bytes)
    IN  IF Len(rec) # SizeofBloom
        THEN [rv |-> 1, why |-> "short metadata", b |-> b1, buf |-> <<>>, leak |-> 0]
        ELSE IF ~ok
        THEN [rv |-> 1, why |-> "allocation", b |-> ZeroBloom, buf |-> <<>>, leak |-> 2]
        ELSE IF Len(bytes) # b1.bytes
        THEN [rv |-> 1, why |-> "short bits", b |-> ZeroBloom, buf |-> <<>>, leak |-> 0]
        ELSE [rv |-> 0, why |-> "none", b |-> b1, buf |-> bytes, leak |-> 0]

bloom_loadcustom(f, name, ok) ==
    /\ Running
    /\ ok => CanAlloc
    /\ LET rv(r, why) == [Ret("bloom_loadcustom", f, "-", name, r, 0, "none") EXCEPT !.why = why]
           str == BlmName(name)
           dat == DatName(name)
       IN  IF IsEmptyName(name)
           THEN /\ ret' = rv(1, "empty name")
                /\ UNCHANGED <<bloom, heap, nopen, added>>
           ELSE LET o1 == OpensForRead(str, nopen)
                    o2 == OpensForRead(dat, nopen + (IF o1 THEN 1 ELSE 0))
                IN  IF ~(o1 /\ o2)
                    THEN /\ ret' = rv(1, "missing file")
                         /\ nopen' = nopen + (IF o1 THEN 1 ELSE 0) + (IF o2 THEN 1 ELSE 0)
                         /\ UNCHANGED <<bloom, heap, added>>
                    ELSE LET r == LoadCustom(bloom[f], fs[str].data, fs[dat].data, ok)
                         IN  /\ ret' = rv(r.rv, r.why)
                             /\ nopen' = nopen + r.leak
                             /\ added' = [added EXCEPT ![f] = {}]
                             /\ IF r.rv = 0
                                THEN /\ heap' = Alloc(heap, NewAddr, r.buf)
                                     /\ bloom' = [bloom EXCEPT ![f] = [r.b EXCEPT !.bf = NewAddr]]
                                ELSE /\ heap' = heap
                                     /\ bloom' = [bloom EXCEPT ![f] = r.b]
    /\ UNCHANGED <<fs, win64, saved, pc, loc>>

-----------------------------------------------------------------------------
(* The environment: what happens to a saved file between a save and a load *)

\* the file a save wrote under name n is still as the save left it
Pristine(n) == saved[n] # NoSnapshot

BaseOf(path) == CHOOSE n \in SaveNames : path \in {n, BlmName(n), DatName(n)}

\* the offsets at which the parts of a file begin, and one inside each part
CutPoints == {0, 4, Len(BLOOM_MAGIC), Len(BLOOM_MAGIC) + 1, Len(BLOOM_MAGIC) + 2,
              Len(BLOOM_MAGIC) + 2 + 4, Len(BLOOM_MAGIC) + 2 + SizeofBloom, SizeofBloom}

Truncate(path, k) ==
    /\ Running
    /\ fs[path].present /\ k < Len(fs[path].data)
    /\ Pristine(BaseOf(path))
    /\ fs' = [fs EXCEPT ![path] = File(Take(fs[path].data, k))]
    /\ saved' = [saved EXCEPT ![BaseOf(path)] = NoSnapshot]
    /\ UNCHANGED <<bloom, heap, win64, nopen, ret, added, pc, loc>>

Remove(path) ==
    /\ Running
    /\ fs[path].present
    /\ fs' = [fs EXCEPT ![path] = NoFile]
    /\ saved' = [saved EXCEPT ![BaseOf(path)] = NoSnapshot]
    /\ UNCHANGED <<bloom, heap, win64, nopen, ret, added, pc, loc>>

\* the offset of a struct field in a single-file image
FieldAt(name) == Len(BLOOM_MAGIC) + 2 + (CHOOSE k \in 1..SizeofBloom : FieldOrder[k] = name)

\* one cell of a single-file image overwritten
Pokes == {<<1, 76>>, <<Len(BLOOM_MAGIC) + 1, SizeofBloom + 1>>,
          <<FieldAt("major"), BLOOM_VERSION_MAJOR + 1>>,
          <<FieldAt("minor"), BLOOM_VERSION_MINOR + 1>>}

Poke(path, at, v) ==
    /\ Running
    /\ fs[path].present /\ at <= Len(fs[path].data)
    /\ Pristine(BaseOf(path))
    /\ fs' = [fs EXCEPT ![path] = File([fs[path].data EXCEPT ![at] = v])]
    /\ saved' = [saved EXCEPT ![BaseOf(path)] = NoSnapshot]
    /\ UNCHANGED <<bloom, heap, win64, nopen, ret, added, pc, loc>>

-----------------------------------------------------------------------------
(* Initial states *)

Threads == {"t1", "t2"}
\* since: whether a bloom_add of the same element had returned when the call began
Idle == [e |-> "-", add |-> 0, i |-> 0, hits |-> 0, x |-> 0, c |-> 0, r |-> 0, since |-> FALSE]

\* the process as it starts: Filters in static storage, an empty heap, no open file
InitProcess ==
    /\ bloom = [f \in FilterIds |-> ZeroBloom]
    /\ heap = [p \in Addrs |-> FreeBlock]
    /\ win64 \in BOOLEAN
    /\ nopen = 0
    /\ ret = Ret("none", "F", "-", NoName, 0, 0, "none")
    /\ added = [f \in FilterIds |-> {}]
    /\ pc = [t \in Threads |-> "idle"]
    /\ loc = [t \in Threads |-> Idle]

\* no file yet
Init ==
    /\ InitProcess
    /\ fs = [n \in Paths |-> NoFile]
    /\ saved = [n \in SaveNames |-> NoSnapshot]

-----------------------------------------------------------------------------
(* One thread working on one Filter in memory *)

\* the (entries, error) arguments of a construction: two valid pairs, and one
\* pair for each way of being invalid
SizingArgs == {<<MinEntries, 30>>, <<MinEntries, 99>>,
               <<MinEntries - 1, 30>>, <<MinEntries, 0>>, <<MinEntries, ErrorOne>>}

\* the elements one thread inserts and queries
Probes == {"e1", "e3"}

Next ==
    \/ \E a \in SizingArgs, ok \in BOOLEAN : bloom_init2("F", a[1], a[2], ok)
    \/ \E a \in SizingArgs : bloom_dummy("F", a[1], a[2])
    \/ \E e \in Probes : bloom_check("F", e)
    \/ \E e \in Probes : bloom_add("F", e)
    \/ bloom_reset("F")
    \/ bloom_free("F")
    \/ bloom_print("F")
    \/ \E name \in {EmptyName, P}, ok \in BOOLEAN : bloom_load("F", name, ok)

Spec == Init /\ [][Next]_vars

-----------------------------------------------------------------------------
(* Statements about query and insert *)

\* bit x of buf is set
BitSet(buf, x) == x \div 8 < Len(buf) /\ TestMask(buf[x \div 8 + 1], Mask(x))

\* the bits element e indexes in a Filter with struct b, round by round
Rounds(b) == 0..(b.hashes - 1)
BitOf(b, e, i) == Index(XXH64(e, SEED), XXH64(e, XXH64(e, SEED)), i, b.bits)
AllSet(b, buf, e) == \A i \in Rounds(b) : BitSet(buf, BitOf(b, e, i))

\* the first round whose bit is unset
FirstUnset(b, buf, e) ==
    CHOOSE i \in Rounds(b) : /\ ~BitSet(buf, BitOf(b, e, i))
                             /\ \A j \in 0..(i - 1) : BitSet(buf, BitOf(b, e, j))

\* C1: no false negatives. A bloom_check of an element whose bloom_add has returned,
\* with only bloom_add and bloom_check calls on the Filter since, returns 1.
C1_NoFalseNegative ==
    (ret.op = "bloom_check" /\ ret.e \in added[ret.f]) => ret.rv = 1

\* a query of an inserted element returned 1 in a two-round Filter holding another element too
C1_Witness ==
    /\ ret.op = "bloom_check" /\ ret.rv = 1
    /\ ret.e \in added[ret.f] /\ Cardinality(added[ret.f]) = 2
    /\ bloom[ret.f].hashes = 2

\* C2: bloom_add on a ready Filter leaves every indexed bit set, and returns 1 exactly
\* when every indexed bit was set before the call, 0 otherwise.
C2_AddSetsAndReports ==
    [][(ret'.op = "bloom_add" /\ bloom[ret'.f].ready # 0 /\ ret'.fault = "none") =>
          LET f == ret'.f  e == ret'.e
          IN  /\ AllSet(bloom'[f], BufIn(heap', bloom'[f]), e)
              /\ ret'.rv \in {0, 1}
              /\ ret'.rv = 1 <=> AllSet(bloom[f], Buf(bloom[f]), e)
              /\ ret'.tested = bloom[f].hashes]_vars

\* an insert of an element whose two rounds index the same bit, unset before, returned 0
C2_Witness ==
    /\ ret.op = "bloom_add" /\ ret.rv = 0 /\ ret.tested = 2
    /\ bloom[ret.f].ready # 0
    /\ BitOf(bloom[ret.f], ret.e, 0) = BitOf(bloom[ret.f], ret.e, 1)

\* C3: bloom_check on a ready Filter changes neither the buffer nor the struct, returns
\* 1 exactly when every indexed bit is set, and returns 0 right after testing the
\* first unset bit.
C3_CheckIsPureRead ==
    [][(ret'.op = "bloom_check" /\ bloom[ret'.f].ready # 0 /\ ret'.fault = "none") =>
          LET f == ret'.f  e == ret'.e  b == bloom[f]  buf == Buf(bloom[f])
          IN  /\ heap' = heap /\ bloom' = bloom /\ fs' = fs
              /\ ret'.rv \in {0, 1}
              /\ ret'.rv = 1 <=> AllSet(b, buf, e)
              /\ ret'.rv = 1 => ret'.tested = b.hashes
              /\ ret'.rv = 0 => ret'.tested = FirstUnset(b, buf, e) + 1]_vars

\* a query stopped at round 0 although the bit of round 1 was set
C3_Witness ==
    /\ ret.op = "bloom_check" /\ ret.rv = 0 /\ ret.tested = 1
    /\ bloom[ret.f].ready # 0 /\ bloom[ret.f].hashes = 2
    /\ BitSet(Buf(bloom[ret.f]), BitOf(bloom[ret.f], ret.e, 1))

\* C4: on a Filter whose ready is 0, bloom_check and bloom_add return -1 and
\* bloom_reset returns 1, without a bit test and with the struct and the heap unchanged.
C4_UnreadyFails ==
    [][(ret'.op \in {"bloom_check", "bloom_add", "bloom_reset"} /\ bloom[ret'.f].ready = 0) =>
          /\ ret'.rv = (IF ret'.op = "bloom_reset" THEN 1 ELSE -1)
          /\ ret'.tested = 0 /\ ret'.fault = "none"
          /\ bloom' = bloom /\ heap' = heap /\ fs' = fs]_vars

\* bloom_add returned -1 on a released Filter that still holds its old sizes and pointer
C4_Witness ==
    /\ ret.op = "bloom_add" /\ ret.rv = -1
    /\ bloom[ret.f].ready = 0 /\ bloom[ret.f].bf # NULL /\ bloom[ret.f].bits > 0

-----------------------------------------------------------------------------
(* Threads sharing the Filter F: each call of bloom_add or bloom_check, step *)
(* by step.  A step is one access to shared memory (the mutex, a buffer      *)
(* byte) with the local computation that follows it.                         *)

Shared == "F"

AtThreads == UNCHANGED <<fs, win64, nopen, saved>>

\* the caller enters bloom_add (add = 1) or bloom_check (add = 0)
Call(t, e, add) ==
    /\ Running
    /\ ret.op # "none"                  \* the threads start after the construction
    /\ pc[t] = "idle"
    /\ pc' = [pc EXCEPT ![t] = IF add # 0 THEN "lock" ELSE "enter"]
    /\ loc' = [loc EXCEPT ![t] = [Idle EXCEPT !.e = e, !.add = add,
                                           !.since = e \in added[Shared]]]
    /\ UNCHANGED <<bloom, heap, ret, added>>
    /\ AtThreads

\* pthread_mutex_lock(&bloom->mutex), or WaitForSingleObject(&bloom->mutex, INFINITE):
\* the latter is handed the address of the handle, not the handle, fails and returns
Lock(t) ==
    /\ pc[t] = "lock"
    /\ IF win64
       THEN bloom' = bloom
       ELSE /\ bloom[Shared].mutex = 0
            /\ bloom' = [bloom EXCEPT ![Shared].mutex = 1]
    /\ pc' = [pc EXCEPT ![t] = "enter"]
    /\ UNCHANGED <<heap, ret, added, loc>>
    /\ AtThreads

\* bloom_check_add up to the loop: the test of bloom->ready
Enter(t) ==
    /\ pc[t] = "enter"
    /\ IF bloom[Shared].ready = 0
       THEN /\ loc' = [loc EXCEPT ![t].r = -1]
            /\ pc' = [pc EXCEPT ![t] = "leave"]
       ELSE /\ loc' = [loc EXCEPT ![t].i = 0, ![t].hits = 0]
            /\ pc' = [pc EXCEPT ![t] = "loop"]
    /\ UNCHANGED <<bloom, heap, ret, added>>
    /\ AtThreads

\* the loop test, x = (a + b * i) % bits, and c = buf[byte]
ReadByte(t) ==
    /\ pc[t] = "loop"
    /\ LET b == bloom[Shared]
           l == loc[t]
           ha == XXH64(l.e, SEED)
           hb == XXH64(l.e, ha)
       IN  IF ~(l.i < b.hashes)
           THEN /\ loc' = [loc EXCEPT ![t].r = IF l.hits = b.hashes THEN 1 ELSE 0]
                /\ pc' = [pc EXCEPT ![t] = "leave"]
           ELSE LET x == Index(ha, hb, l.i, b.bits)
                IN  /\ loc' = [loc EXCEPT ![t].x = x, ![t].c = Buf(b)[x \div 8 + 1]]
                    /\ pc' = [pc EXCEPT ![t] = "test"]
    /\ UNCHANGED <<bloom, heap, ret, added>>
    /\ AtThreads

\* the rest of test_bit_set_bit: c & mask, and buf[byte] = c | mask with the c read before
TestWrite(t) ==
    /\ pc[t] = "test"
    /\ LET b == bloom[Shared]
           l == loc[t]
           mask == Mask(l.x)
       IN  IF TestMask(l.c, mask)
           THEN /\ heap' = heap
                /\ loc' = [loc EXCEPT ![t].hits = (l.hits + 1) % Base, ![t].i = l.i + 1]
                /\ pc' = [pc EXCEPT ![t] = "loop"]
           ELSE IF l.add # 0
           THEN /\ heap' = [heap EXCEPT ![b.bf].data[l.x \div 8 + 1] = OrMask(l.c, mask)]
                /\ loc' = [loc EXCEPT ![t].i = l.i + 1]
                /\ pc' = [pc EXCEPT ![t] = "loop"]
           ELSE /\ heap' = heap
                /\ loc' = [loc EXCEPT ![t].r = 0]
                /\ pc' = [pc EXCEPT ![t] = "leave"]
    /\ UNCHANGED <<bloom, ret, added>>
    /\ AtThreads

\* pthread_mutex_unlock / ReleaseMutex (which fails as the wait did), and the return
Leave(t) ==
    /\ pc[t] = "leave"
    /\ bloom' = IF loc[t].add # 0 /\ ~win64 THEN [bloom EXCEPT ![Shared].mutex = 0] ELSE bloom
    /\ ret' = Ret(IF loc[t].add # 0 THEN "bloom_add" ELSE "bloom_check",
                  Shared, loc[t].e, NoName, loc[t].r, loc[t].i, "none")
    /\ added' = IF loc[t].add # 0 /\ loc[t].r >= 0
                THEN [added EXCEPT ![Shared] = @ \cup {loc[t].e}] ELSE added
    /\ pc' = [pc EXCEPT ![t] = "idle"]
    /\ loc' = [loc EXCEPT ![t] = Idle]
    /\ UNCHANGED heap
    /\ AtThreads

\* the main thread builds the Filter before the threads run
Construct ==
    /\ ret.op = "none"
    /\ \E error \in {30, 99}, ok \in BOOLEAN : bloom_init2(Shared, MinEntries, error, ok)

\* the elements the threads insert
Inserted == {"e1", "e2"}

NextThreads ==
    \/ Construct
    \/ \E t \in Threads, e \in Inserted : Call(t, e, 1)
    \/ \E t \in Threads : Lock(t)
    \/ \E t \in Threads : Enter(t)
    \/ \E t \in Threads : ReadByte(t)
    \/ \E t \in Threads : TestWrite(t)
    \/ \E t \in Threads : Leave(t)

SpecThreads == Init /\ [][NextThreads]_vars

\* the threads inside the test-and-set loop of bloom_check_add for an insert
InLoop == {t \in Threads : pc[t] \in {"loop", "test"} /\ loc[t].add # 0}
AllReturned == \A t \in Threads : pc[t] = "idle"

\* C5: the lock serializes inserts on a Filter built by bloom_init2: at most one
\* thread is inside the test-and-set loop, and once all calls have returned every
\* bit indexed by every inserted element is set.
C5_InsertsSerialized ==
    /\ Cardinality(InLoop) <= 1
    /\ AllReturned => \A e \in added[Shared] :
                         AllSet(bloom[Shared], Buf(bloom[Shared]), e)

\* what holds of the build without WIN64: there the zeroed pthread mutex serializes
C5_SerializedWithoutWin64 == ~win64 => C5_InsertsSerialized

-----------------------------------------------------------------------------
(* The single-file form: one process saving F and loading into F or G *)

\* a Filter saved to P by an earlier run that wrote the whole image: 1000 entries,
\* error 0.99, element e1 inserted; its bf is the address the buffer had in that run
PriorBloom == [Sized(MinEntries, 99, FALSE) EXCEPT !.ready = 1, !.bf = 1,
                                            !.major = BLOOM_VERSION_MAJOR,
                                            !.minor = BLOOM_VERSION_MINOR]
PriorBuf == <<32, 0, 0>>
PriorSnapshot == [b |-> PriorBloom, buf |-> PriorBuf, added |-> {"e1"}]

InitSingle ==
    /\ InitProcess
    /\ \E prior \in BOOLEAN :
          /\ fs = [n \in Paths |-> IF prior /\ n = P
                                   THEN File(SingleFile(PriorBloom, PriorBuf)) ELSE NoFile]
          /\ saved = [n \in SaveNames |-> IF prior /\ n = P THEN PriorSnapshot ELSE NoSnapshot]

LoadNames == {P, EmptyName, NullName, U}

\* the file is damaged between the save and the first load
Unloaded == bloom["G"] = ZeroBloom /\ ret.op # "bloom_load"

NextSingle ==
    \/ ret.op = "none" /\ \E ok \in BOOLEAN : bloom_init2("F", MinEntries, 99, ok)
    \/ bloom_add("F", "e1")
    \/ \E name \in {P, EmptyName, NullName, U} : bloom_save("F", name)
    \/ \E f \in {"G", NullFilter}, name \in LoadNames, ok \in BOOLEAN :
          bloom_load(f, name, ok)
    \/ \E e \in Probes : bloom_check("G", e)
    \/ Unloaded /\ \E k \in CutPoints : Truncate(P, k)
    \/ Unloaded /\ \E p \in Pokes : Poke(P, p[1], p[2])
    \/ Unloaded /\ Remove(P)

SpecSingle == InitSingle /\ [][NextSingle]_vars

\* the content behind a file name, nothing when there is no such file
DataOf(name) == IF name \in Paths /\ fs[name].present THEN fs[name].data ELSE <<>>
Cell(data, i) == IF i <= Len(data) THEN data[i] ELSE -1

\* check k of the eleven, stated on the arguments and the file as they are before the call
Violated(k, f, name, ok) ==
    LET data == DataOf(name)
        head == Len(BLOOM_MAGIC) + 2
    IN  CASE k = 1 -> IsEmptyName(name)
          [] k = 2 -> f = NullFilter
          [] k = 3 -> ~OpensForRead(name, nopen)
          [] k = 4 -> Len(data) < Len(BLOOM_MAGIC)
          [] k = 5 -> \E i \in 1..Len(BLOOM_MAGIC) : Cell(data, i) # BLOOM_MAGIC[i]
          [] k = 6 -> Len(data) < head
          [] k = 7 -> Cell(data, head - 1) + Base * Cell(data, head) # SizeofBloom
          [] k = 8 -> Len(data) < head + SizeofBloom
          [] k = 9 -> Cell(data, FieldAt("major")) # BLOOM_VERSION_MAJOR
          [] k = 10 -> ~ok
          [] k = 11 -> Len(data) < head + SizeofBloom + Cell(data, FieldAt("bytes"))

FirstViolated(f, name, ok) ==
    IF \E k \in 1..11 : Violated(k, f, name, ok)
    THEN CHOOSE k \in 1..11 : /\ Violated(k, f, name, ok)
                              /\ \A j \in 1..(k - 1) : ~Violated(j, f, name, ok)
    ELSE 0

\* the Filter G after a load against what the save was handed
SameAsSaved(snap, b, buf) ==
    /\ b.ready # 0
    /\ b.entries = snap.b.entries /\ b.error = snap.b.error /\ b.bits = snap.b.bits
    /\ b.bytes = snap.b.bytes /\ b.hashes = snap.b.hashes
    /\ buf = snap.buf
    /\ Len(buf) = b.bytes
    /\ \A e \in snap.added : bloom_check_add(b, buf, e, 0).rv = 1

\* C6: single-file round trip: for a ready Filter F and a writable name P, bloom_save(F, P)
\* returns 0, and a following bloom_load(G, P) that gets its memory returns 0 and leaves G
\* ready with F's entries, error, bits, bytes and hashes and F's buffer, so every element
\* inserted into F queries present in G -- on the WIN64 path and on the other
C6_SingleFileRoundTrip ==
    [][/\ (/\ bloom_save("F", P)
           /\ bloom["F"].ready # 0 /\ CanReadBuf(bloom["F"]) /\ OpensForWrite(P, nopen))
          => ret'.rv = 0
       /\ (bloom_load("G", P, TRUE) /\ Pristine(P))
          => /\ ret'.rv = 0
             /\ SameAsSaved(saved[P], bloom'["G"], BufIn(heap', bloom'["G"]))]_vars

\* the same statement for the path that is not WIN64
C6_RoundTripWithoutWin64 ==
    [][~win64 =>
       /\ (/\ bloom_save("F", P)
           /\ bloom["F"].ready # 0 /\ CanReadBuf(bloom["F"]) /\ OpensForWrite(P, nopen))
          => ret'.rv = 0
       /\ (bloom_load("G", P, TRUE) /\ Pristine(P))
          => /\ ret'.rv = 0
             /\ SameAsSaved(saved[P], bloom'["G"], BufIn(heap', bloom'["G"]))]_vars

\* C8: bloom_load returns code k of 1..11 exactly when check k is the first one violated
\* (1 empty or null name, 2 null Filter, 3 file not openable, 4 short magic, 5 wrong magic,
\* 6 short size field, 7 size field not the record size, 8 short record, 9 wrong major
\* version, 10 allocation failure, 11 short buffer), and 0 when none is; a differing minor
\* version alone is accepted
C8_LoadCodesInOrder ==
    [][\A f \in {"G", NullFilter}, name \in LoadNames, ok \in BOOLEAN :
          bloom_load(f, name, ok) => ret'.rv = FirstViolated(f, name, ok)]_vars

\* a file whose minor version differs has been loaded with code 0
C8_Witness ==
    /\ ret.op = "bloom_load" /\ ret.rv = 0 /\ ret.f = "G"
    /\ bloom["G"].minor # BLOOM_VERSION_MINOR /\ bloom["G"].ready # 0

\* C9: whenever bloom_load returns a non-zero code for a non-null Filter, whatever the
\* cause and whatever state the Filter was in before, the Filter's ready flag is 0
C9_FailedLoadClearsReady ==
    (ret.op = "bloom_load" /\ ret.rv # 0 /\ ret.f # NullFilter /\ Running)
        => bloom[ret.f].ready = 0

-----------------------------------------------------------------------------
(* The two-file form: one process saving F and loading into G *)

CustomNames == {N, L, EmptyName}

\* the files are damaged between the save and the first load
UnloadedCustom == bloom["G"] = ZeroBloom /\ ret.op # "bloom_loadcustom"

NextCustom ==
    \/ ret.op = "none" /\ \E ok \in BOOLEAN : bloom_init2("F", MinEntries, 99, ok)
    \/ bloom_add("F", "e1")
    \/ \E name \in CustomNames : bloom_savecustom("F", name)
    \/ \E name \in CustomNames, ok \in BOOLEAN : bloom_loadcustom("G", name, ok)
    \/ bloom_check("G", "e1")
    \/ UnloadedCustom /\ \E path \in {BlmName(N), DatName(N)} : Truncate(path, 1)
    \/ UnloadedCustom /\ \E path \in {BlmName(N), DatName(N)} : Remove(path)

SpecCustom == Init /\ [][NextCustom]_vars

\* both files of base name n can be opened, for write or for read
WritableBase(n) == OpensForWrite(BlmName(n), nopen) /\ OpensForWrite(DatName(n), nopen + 1)
ReadableBase(n) == OpensForRead(BlmName(n), nopen) /\ OpensForRead(DatName(n), nopen + 1)

RoundTripCustom(n) ==
    /\ (/\ bloom_savecustom("F", n)
        /\ bloom["F"].ready # 0 /\ CanReadBuf(bloom["F"]) /\ WritableBase(n))
       => ret'.rv = 0
    /\ (bloom_loadcustom("G", n, TRUE) /\ Pristine(n) /\ ReadableBase(n))
       => /\ ret'.rv = 0
          /\ SameAsSaved(saved[n], bloom'["G"], BufIn(heap', bloom'["G"]))
          /\ bloom'["G"].bf # bloom'["F"].bf

\* C7: two-file round trip: for a ready Filter F and every writable base name n,
\* bloom_savecustom(F, n) returns 0, and a following bloom_loadcustom(G, n) that gets its
\* memory returns 0 and leaves G ready with F's entries, error, bits, bytes and hashes and
\* a buffer of bytes bytes equal to F's and not F's own, so every element inserted into F
\* queries present in G
C7_TwoFileRoundTrip == [][\A n \in {N, L} : RoundTripCustom(n)]_vars

\* the same statement for the short base name alone
C7_RoundTripShortName == [][RoundTripCustom(N)]_vars

\* the failure cause of bloom_loadcustom(G, name), stated on the files before the call
CustomCause(name, ok) ==
    LET meta == DataOf(BlmName(name))
        bits == DataOf(DatName(name))
    IN  IF IsEmptyName(name) THEN "empty name"
        ELSE IF ~ReadableBase(name) THEN "missing file"
        ELSE IF Len(meta) < SizeofBloom THEN "short metadata"
        ELSE IF ~ok THEN "allocation"
        ELSE IF Len(bits) < Cell(meta, FieldAt("bytes") - Len(BLOOM_MAGIC) - 2) THEN "short bits"
        ELSE "none"

-----------------------------------------------------------------------------
(* Statements about construction *)

\* the arguments the construction must refuse
Refused(entries, error) == entries < MinEntries \/ LeZero(error) \/ GeOne(error)

\* C11: a call of bloom_init2 with entries < 1000, error <= 0 or error >= 1 returns
\* non-zero, allocates no buffer and leaves the Filter with ready 0, whatever the Filter
\* held before the call
C11_InvalidArgsRefused ==
    [][\A a \in SizingArgs, ok \in BOOLEAN :
          (bloom_init2("F", a[1], a[2], ok) /\ Refused(a[1], a[2]))
             => /\ ret'.rv # 0
                /\ heap' = heap
                /\ bloom'["F"].ready = 0 /\ bloom'["F"].bf = NULL]_vars

\* a refused construction on a Filter that was ready: the struct is zeroed while the
\* buffer of the earlier construction is still allocated
C11_Witness ==
    /\ ret.op = "bloom_init2" /\ ret.rv = 1
    /\ bloom["F"] = ZeroBloom
    /\ \E p \in Addrs : heap[p].live

-----------------------------------------------------------------------------
(* Construction over the range of its arguments, and the calls that follow it *)

\* the arguments of SizingArgs, and an error close to 1 and one close to 0
SizingRange == SizingArgs \cup {<<MinEntries, NearOne>>, <<MinEntries, Tiny>>}

\* the constructions whose Filter the caller goes on to use: all but the one of 255 rounds
Followed == bloom["F"].hashes < Base - 1

NextSizing ==
    \/ ret.op = "none" /\ \E a \in SizingRange, ok \in BOOLEAN : bloom_init2("F", a[1], a[2], ok)
    \/ Followed /\ \E e \in Elements : bloom_add("F", e)
    \/ Followed /\ \E e \in Elements : bloom_check("F", e)
    \/ Followed /\ bloom_reset("F")

SpecSizing == Init /\ [][NextSizing]_vars

\* what a successful construction must leave in the Filter
WellSized(b) ==
    /\ b.ready # 0
    /\ b.bytes * 8 >= b.bits /\ b.bytes = CeilDiv(b.bits, 8)
    /\ b.hashes >= 1

\* C12: for valid arguments (entries >= 1000, 0 < error < 1) and a successful allocation,
\* bloom_init2 returns 0 with ready set, bytes = ceil(bits / 8), so bytes * 8 >= bits, and
\* hashes >= 1, hashes being the value its 8-bit field holds
C12_ValidArgsWellSized ==
    [][\A a \in SizingRange :
          (bloom_init2("F", a[1], a[2], TRUE) /\ ~Refused(a[1], a[2]))
             => ret'.rv = 0 /\ WellSized(bloom'["F"])]_vars

\* the same statement for the arguments whose ceil(ln2 * bpe) is at most 255
C12_WellSizedInRange ==
    [][\A a \in SizingRange \ {<<MinEntries, Tiny>>} :
          (bloom_init2("F", a[1], a[2], TRUE) /\ ~Refused(a[1], a[2]))
             => ret'.rv = 0 /\ WellSized(bloom'["F"])]_vars

-----------------------------------------------------------------------------
(* Statements about reset and release *)

AllZero(buf) == buf = Zeros(Len(buf))

\* C13: after bloom_reset returned 0 on a ready Filter every byte of the buffer is 0, and
\* on a buffer of zero bytes bloom_check returns 0 for every element; bloom_reset on a
\* Filter that is not ready returns non-zero and changes nothing
C13_ResetClears ==
    [][/\ (ret'.op = "bloom_reset" /\ bloom[ret'.f].ready # 0)
          => /\ ret'.rv = 0 /\ bloom' = bloom
             /\ Len(BufIn(heap', bloom'[ret'.f])) = bloom[ret'.f].bytes
             /\ AllZero(BufIn(heap', bloom'[ret'.f]))
       /\ (ret'.op = "bloom_check" /\ bloom[ret'.f].ready # 0 /\ AllZero(Buf(bloom[ret'.f])))
          => ret'.rv = 0 /\ ret'.fault = "none"
       /\ (ret'.op = "bloom_reset" /\ bloom[ret'.f].ready = 0)
          => ret'.rv # 0 /\ bloom' = bloom /\ heap' = heap]_vars

\* the same statement for Filters of at least one round and at least one bit
C13_ResetClearsWithRounds ==
    [][/\ (ret'.op = "bloom_reset" /\ bloom[ret'.f].ready # 0)
          => /\ ret'.rv = 0 /\ bloom' = bloom
             /\ Len(BufIn(heap', bloom'[ret'.f])) = bloom[ret'.f].bytes
             /\ AllZero(BufIn(heap', bloom'[ret'.f]))
       /\ (/\ ret'.op = "bloom_check" /\ bloom[ret'.f].ready # 0 /\ AllZero(Buf(bloom[ret'.f]))
           /\ bloom[ret'.f].hashes >= 1 /\ bloom[ret'.f].bits >= 1)
          => ret'.rv = 0 /\ ret'.fault = "none"
       /\ (ret'.op = "bloom_reset" /\ bloom[ret'.f].ready = 0)
          => ret'.rv # 0 /\ bloom' = bloom /\ heap' = heap]_vars

-----------------------------------------------------------------------------
(* Filters built, saved, loaded and released by one process *)

\* the place of a field in the record
FieldIndex(name) == CHOOSE k \in 1..SizeofBloom : FieldOrder[k] = name

\* a metadata file cut inside its first field, and one cut between ready and bf
RecordCuts == {1, FieldIndex("ready")}

NextRelease ==
    \/ ret.op = "none" /\ \E ok \in BOOLEAN : bloom_init2("F", MinEntries, 99, ok)
    \/ \E ok \in BOOLEAN : bloom_init2("G", MinEntries, 99, ok)
    \/ bloom_add("F", "e1")
    \/ bloom_savecustom("F", N)
    \/ bloom_save("F", P)
    \/ \E k \in RecordCuts : Truncate(BlmName(N), k)
    \/ \E name \in {N, EmptyName}, ok \in BOOLEAN : bloom_loadcustom("G", name, ok)
    \/ \E name \in {P, EmptyName}, ok \in BOOLEAN : bloom_load("G", name, ok)
    \/ \E f \in FilterIds : bloom_free(f)

SpecRelease == Init /\ [][NextRelease]_vars

\* C14: bloom_free releases the buffer and clears ready when the Filter is ready and
\* changes nothing when it is not, so that in any sequence of constructions, loads that
\* succeed or fail, and releases no buffer is released twice
C14_FreeIdempotent ==
    [][\A f \in FilterIds :
          bloom_free(f) =>
             /\ bloom[f].ready # 0
                => /\ bloom[f].bf # NULL => Live(bloom[f].bf) /\ ~heap'[bloom[f].bf].live
                   /\ bloom' = [bloom EXCEPT ![f].ready = 0]
             /\ bloom[f].ready = 0 => bloom' = bloom /\ heap' = heap
             /\ ret'.fault = "none"]_vars

-----------------------------------------------------------------------------
(* Threads inserting into and querying the Filter F *)

NextMixed ==
    \/ Construct
    \/ \E t \in Threads, e \in Inserted, add \in {0, 1} : Call(t, e, add)
    \/ \E t \in Threads : Lock(t)
    \/ \E t \in Threads : Enter(t)
    \/ \E t \in Threads : ReadByte(t)
    \/ \E t \in Threads : TestWrite(t)
    \/ \E t \in Threads : Leave(t)

SpecMixed == Init /\ [][NextMixed]_vars

\* C15: with bloom_check calls, which take no lock, running beside bloom_add calls of
\* other threads on a ready Filter, a bloom_check(X) that began after a bloom_add(X) had
\* returned returns 1, whatever inserts of other elements are in progress
C15_CheckAfterAddPresent ==
    [][\A t \in Threads :
          (Leave(t) /\ loc[t].add = 0 /\ loc[t].since /\ bloom[Shared].ready # 0)
             => ret'.rv = 1]_vars

\* the same statement for the build without WIN64
C15_PresentWithoutWin64 ==
    [][\A t \in Threads :
          (Leave(t) /\ loc[t].add = 0 /\ loc[t].since /\ bloom[Shared].ready # 0 /\ ~win64)
             => ret'.rv = 1]_vars

-----------------------------------------------------------------------------
(* Statements about what a failing bloom_loadcustom leaves behind *)

\* C16: a bloom_loadcustom call that fails, for whatever cause and whatever the Filter held
\* before, leaves the Filter empty and not ready: no field read from the file, no buffer
C16_LoadCustomFailsAtomically ==
    [][\A name \in CustomNames, ok \in BOOLEAN :
          (bloom_loadcustom("G", name, ok) /\ ret'.rv # 0)
             => bloom'["G"] = ZeroBloom /\ heap' = heap]_vars

\* the same statement for the failures after the metadata record was read whole
C16_AtomicAfterRecord ==
    [][\A name \in CustomNames, ok \in BOOLEAN :
          (/\ bloom_loadcustom("G", name, ok) /\ ret'.rv # 0
           /\ CustomCause(name, ok) \in {"allocation", "short bits"})
             => bloom'["G"] = ZeroBloom /\ heap' = heap]_vars

-----------------------------------------------------------------------------
(* Statements about the indices of a query or an insert *)

\* C17: every buffer access of bloom_check and bloom_add on a ready Filter is in bounds:
\* bits is not 0, so the modulo is defined, and every index x = (a + b * i) % bits of the
\* rounds 0..hashes-1, with a + b * i wrapping at 2^64, has x >> 3 < bytes
C17_AccessInBounds ==
    [][(ret'.op \in {"bloom_check", "bloom_add"} /\ bloom[ret'.f].ready # 0) =>
          LET b == bloom[ret'.f]
          IN  /\ b.bits > 0
              /\ ret'.fault = "none"
              /\ \A i \in Rounds(b) : BitOf(b, ret'.e, i) \div 8 < b.bytes
              /\ Len(Buf(b)) = b.bytes]_vars

\* the same statement for the Filters whose bits is not 0
C17_InBoundsWithBits ==
    [][(ret'.op \in {"bloom_check", "bloom_add"} /\ bloom[ret'.f].ready # 0
           /\ bloom[ret'.f].bits > 0) =>
          LET b == bloom[ret'.f]
          IN  /\ ret'.fault = "none"
              /\ \A i \in Rounds(b) : BitOf(b, ret'.e, i) \div 8 < b.bytes
              /\ Len(Buf(b)) = b.bytes]_vars

-----------------------------------------------------------------------------
(* Statements about saving a Filter that is not ready *)

\* C18: bloom_save and bloom_savecustom called on a Filter whose ready is 0 (never
\* constructed, after a failed construction or load, after bloom_free) return an error
\* and do not read through bloom->bf
C18_UnreadySaveFails ==
    [][(ret'.op \in {"bloom_save", "bloom_savecustom"} /\ bloom[ret'.f].ready = 0)
          => ret'.rv # 0 /\ ret'.fault = "none" /\ fs' = fs]_vars

-----------------------------------------------------------------------------
(* A Filter in use: inserts, queries, resets, prints and saves after one construction *)

NextUse ==
    \/ ret.op = "none" /\ \E error \in {30, 99}, ok \in BOOLEAN :
                             bloom_init2("F", MinEntries, error, ok)
    \/ \E e \in Probes : bloom_add("F", e)
    \/ \E e \in Probes : bloom_check("F", e)
    \/ bloom_reset("F")
    \/ bloom_print("F")
    \/ bloom_save("F", P)
    \/ bloom_savecustom("F", N)

SpecUse == Init /\ [][NextUse]_vars

UseOps == {"bloom_add", "bloom_check", "bloom_reset", "bloom_print",
           "bloom_save", "bloom_savecustom"}

\* C19: on a ready Filter, bloom_add, bloom_check, bloom_reset, bloom_print, bloom_save
\* and bloom_savecustom leave bits, bytes, hashes, entries and error (and every other
\* field of the struct) as they were; the buffer stays allocated with its length, and
\* its contents change only under bloom_add and bloom_reset
C19_FieldsConstant ==
    [][(ret'.op \in UseOps /\ bloom[ret'.f].ready # 0) =>
          LET b == bloom[ret'.f]
          IN  /\ bloom' = bloom
              /\ \A p \in Addrs : p # b.bf => heap'[p] = heap[p]
              /\ Live(b.bf) /\ heap'[b.bf].live /\ Len(heap'[b.bf].data) = b.bytes
              /\ heap' # heap => ret'.op \in {"bloom_add", "bloom_reset"}]_vars

\* a reset has emptied the buffer of a Filter saved before in both forms, and the
\* struct still has the sizes of its construction
C19_Witness ==
    /\ ret.op = "bloom_reset" /\ ret.rv = 0
    /\ bloom["F"] = [Sized(MinEntries, 30, FALSE) EXCEPT !.ready = 1, !.bf = bloom["F"].bf,
                        !.major = BLOOM_VERSION_MAJOR, !.minor = BLOOM_VERSION_MINOR]
    /\ fs[BlmName(N)].present /\ fs[P].present
    /\ AllZero(Buf(bloom["F"])) /\ ~AllZero(fs[DatName(N)].data)

-----------------------------------------------------------------------------
(* Statements about file handles *)

\* C20: no file handle is leaked: when bloom_loadcustom, bloom_savecustom, bloom_load or
\* bloom_save has returned, on whatever path, every file the call opened is closed
C20_NoHandleLeak ==
    (ret.op \in {"bloom_loadcustom", "bloom_savecustom", "bloom_load", "bloom_save"} /\ Running)
        => nopen = 0

\* the same statement for the two calls of the single-file form
C20_SingleFileNoLeak ==
    (ret.op \in {"bloom_load", "bloom_save"} /\ Running) => nopen = 0

=============================================================================
